---- MODULE Spec2Model ----
(***************************************************************************)
(* State-machine model of the identity-and-directory service:              *)
(*   - MemoryUserRepository (the in-memory user store),                    *)
(*   - UserService,                                                        *)
(*   - the directory use cases (details, list, profile),                   *)
(*   - AuthService (token issuance, token verification, login).            *)
(* The specifications share the variables:                                 *)
(*   Spec            the store and the directory use cases,                *)
(*   AuthSpec        the session-token codec and the login flow over a     *)
(*                   clock,                                                *)
(*   MiddlewareSpec  the session middleware,                               *)
(*   SessionSpec     the queries of a caller holding a token, while the    *)
(*                   store changes,                                        *)
(*   ReadSpec        the operations that only read,                        *)
(*   TaskSpec        two calls of UserService in flight at once.           *)
(***************************************************************************)
EXTENDS Integers, Sequences, FiniteSets, TLC

VARIABLES
    users,        \* MemoryUserRepository._users: the dict, in insertion order
    last,         \* the most recent call: operation, arguments, outcome
    config,       \* AuthService.config: algorithm, secret, token_ttl
    now,          \* datetime.utcnow(), in ticks of 1/TicksPerSecond second
    issued,       \* the token most recently returned by get_token, with its issue time
    expiredSeen,  \* TRUE once the issued token was rejected as expired
    tasks         \* the calls of UserService in flight on the event loop

vars == <<users, last, config, now, issued, expiredSeen, tasks>>

(***************************************************************************)
(* Bounds                                                                  *)
(***************************************************************************)
\* size of the identifier space uuid4() draws from
NumIds == 2
\* the most ids asked for in one get_users_by_ids
MaxIds == 2
\* the clock runs through the seconds 0..MaxSeconds
MaxSeconds == 2
\* resolution of the clock: datetime values per whole second
TicksPerSecond == 2

MaxTime == MaxSeconds * TicksPerSecond + (TicksPerSecond - 1)

Ids == 1..NumIds

(***************************************************************************)
(* Values                                                                  *)
(***************************************************************************)
None == [tag |-> "None"]

Returned(v) == [kind |-> "return", value |-> v]
Raised(e, m) == [kind |-> "raise", value |-> [error |-> e, message |-> m]]
ListOf(s) == [tag |-> "List", items |-> s]

\* bcrypt, as a one-way function of the plain password
HashOf(plain_password) == <<"bcrypt", plain_password>>

Passwords == {"password", "wrong_password"}

\* the records submitted for creation
NewUserDTOs ==
    { [email |-> "cloe@example.com", first_name |-> "Cloe", last_name |-> "CEO",
       organization_id |-> "GROUP-SHOESTRING-LTD",
       password_hash |-> HashOf("password"), is_admin |-> FALSE],
      [email |-> "mary@example.com", first_name |-> "Mary", last_name |-> "PA",
       organization_id |-> "GROUP-SHOESTRING-LTD",
       password_hash |-> HashOf("password"), is_admin |-> FALSE],
      [email |-> "steve@example.com", first_name |-> "Big", last_name |-> "Steve",
       organization_id |-> "GROUP-BIG-CORP",
       password_hash |-> HashOf("password"), is_admin |-> FALSE],
      [email |-> "admin@example.com", first_name |-> "Ad", last_name |-> "Min",
       organization_id |-> "",
       password_hash |-> HashOf("password"), is_admin |-> TRUE] }

(***************************************************************************)
(* Entities (domain/users/entities.py)                                     *)
(***************************************************************************)
\* User(**record): the fields of User, the others are dropped
User(r) ==
    [id |-> r.id, email |-> r.email, first_name |-> r.first_name,
     last_name |-> r.last_name, organization_id |-> r.organization_id,
     is_admin |-> r.is_admin]

\* SessionUser(**record)
SessionUser(r) ==
    [id |-> r.id, email |-> r.email, organization_id |-> r.organization_id,
     is_admin |-> r.is_admin]

\* AuthUser(**record)
AuthUser(r) ==
    [id |-> r.id, email |-> r.email, password_hash |-> r.password_hash,
     organization_id |-> r.organization_id, is_admin |-> r.is_admin]

\* {**data.dict(), "id": id}
WithId(d, id) ==
    [id |-> id, email |-> d.email, first_name |-> d.first_name,
     last_name |-> d.last_name, organization_id |-> d.organization_id,
     password_hash |-> d.password_hash, is_admin |-> d.is_admin]

\* the User objects a caller can pass to update_user
Users == {User(WithId(d, i)) : d \in NewUserDTOs, i \in Ids}

\* the caller identities a request can carry
SessionUsers == {SessionUser(WithId(d, i)) : d \in NewUserDTOs, i \in Ids}
Callers == SessionUsers \cup {None}

(***************************************************************************)
(* MemoryUserRepository (adapters/repositories/users)                      *)
(***************************************************************************)
Keys(data) == {data[i].key : i \in 1..Len(data)}

IndexOf(data, id) == CHOOSE i \in 1..Len(data) : data[i].key = id

\* self._users[id]
Lookup(data, id) == data[IndexOf(data, id)].val

\* data.values()
Values(data) == [i \in 1..Len(data) |-> data[i].val]

RECURSIVE SelectSeq2(_, _, _)
\* [entity for entity in _set if entity[key] == value]
SelectSeq2(s, key, value) ==
    IF s = <<>> THEN <<>>
    ELSE LET rest == SelectSeq2(Tail(s), key, value)
         IN IF Head(s)[key] = value THEN <<Head(s)>> \o rest ELSE rest

RECURSIVE filter_entities_by_attributes(_, _)
\* attributes is the dict as a sequence of <<key, value>> items; entity[key]
\* raises KeyError when some entity still in _set has no such key
filter_entities_by_attributes(set, attributes) ==
    IF attributes = <<>> THEN Returned(ListOf(set))
    ELSE LET key == Head(attributes)[1]
             value == Head(attributes)[2]
         IN IF \E i \in 1..Len(set) : key \notin DOMAIN set[i]
            THEN Raised("KeyError", key)
            ELSE filter_entities_by_attributes(SelectSeq2(set, key, value),
                                               Tail(attributes))

MapUser(s) == [i \in 1..Len(s) |-> User(s[i])]

find_all(data) == Returned(ListOf(MapUser(Values(data))))

\* variant of find_users_by_attributes that filters on the first item of
\* attributes only
find_users_by_attributes_FirstOnly(data, attributes) ==
    LET first == SubSeq(attributes, 1, IF Len(attributes) = 0 THEN 0 ELSE 1)
        r == filter_entities_by_attributes(Values(data), first)
    IN IF r.kind = "raise" THEN r
       ELSE Returned(ListOf(MapUser(r.value.items)))

\* MemoryUserRepository.find_users_by_attributes
find_users_by_attributes(data, attributes) ==
    LET r == filter_entities_by_attributes(Values(data), attributes)
    IN IF r.kind = "raise" THEN r
       ELSE Returned(ListOf(MapUser(r.value.items)))

\* variant of get_user_by_id that finds no record
get_user_by_id_Absent(data, id) ==
    None

\* MemoryUserRepository.get_user_by_id
get_user_by_id(data, id) ==
    IF id \in Keys(data) THEN User(Lookup(data, id)) ELSE None

\* variant of get_users_by_ids that walks the dict, not the given ids
get_users_by_ids_DictOrder(data, ids) ==
    LET found == SelectSeq(Values(data),
                           LAMBDA user : \E k \in 1..Len(ids) : ids[k] = user.id)
    IN Returned(ListOf(MapUser(found)))

\* MemoryUserRepository.get_users_by_ids:
\* [self._users[id] for id in ids if id in self._users]
get_users_by_ids(data, ids) ==
    LET live == SelectSeq(ids, LAMBDA id : id \in Keys(data))
        found == [k \in 1..Len(live) |-> Lookup(data, live[k])]
    IN Returned(ListOf(MapUser(found)))

\* {**old, **new}: the items of new override those of old
Merge(old, new) ==
    [k \in (DOMAIN old) \cup (DOMAIN new) |->
        IF k \in DOMAIN new THEN new[k] ELSE old[k]]

\* variant of delete_user that empties the dict
delete_user_Clear(data, id) ==
    IF id \notin Keys(data)
    THEN [users |-> data, out |-> Raised("ValueError", "does not exist")]
    ELSE [users |-> <<>>, out |-> Returned([tag |-> "True"])]

\* MemoryUserRepository.delete_user: the new dict and the outcome
delete_user(data, id) ==
    IF id \notin Keys(data)
    THEN [users |-> data, out |-> Raised("ValueError", "does not exist")]
    ELSE [users |-> SelectSeq(data, LAMBDA e : e.key # id),
          out |-> Returned([tag |-> "True"])]

\* variant of MemoryUserRepository.save_new_user that replaces the dict by
\* one holding the new record only
repo_save_new_user_Reset(data, dto, id) ==
    LET user == WithId(dto, id)
    IN [users |-> <<[key |-> id, val |-> user]>>,
        out |-> Returned(User(user))]

\* variant of MemoryUserRepository.save_new_user that refuses an email some
\* record holds
repo_save_new_user_UniqueEmail(data, dto, id) ==
    IF \E i \in 1..Len(data) : data[i].val.email = dto.email
    THEN [users |-> data, out |-> Raised("ValueError", "already exists")]
    ELSE [users |-> Append(data, [key |-> id, val |-> WithId(dto, id)]),
          out |-> Returned(User(WithId(dto, id)))]

\* MemoryUserRepository.save_new_user, id being the uuid4() the loop ends with
repo_save_new_user(data, dto, id) ==
    LET user == WithId(dto, id)
    IN [users |-> Append(data, [key |-> id, val |-> user]),
        out |-> Returned(User(user))]

\* variant of update_user that stores the record of an unknown id
update_user_Upsert(data, user) ==
    IF user.id \notin Keys(data)
    THEN [users |-> Append(data, [key |-> user.id, val |-> user]),
          out |-> Returned(user)]
    ELSE LET i == IndexOf(data, user.id)
         IN [users |-> [data EXCEPT ![i].val = Merge(data[i].val, user)],
             out |-> Returned(user)]

\* variant of update_user in which the stored items override the given ones
update_user_KeepStored(data, user) ==
    IF user.id \notin Keys(data)
    THEN [users |-> data, out |-> Raised("ValueError", "does not exist")]
    ELSE LET i == IndexOf(data, user.id)
         IN [users |-> [data EXCEPT ![i].val = Merge(user, data[i].val)],
             out |-> Returned(user)]

\* variant of update_user that merges onto the record holding the given
\* email
update_user_ByEmail(data, user) ==
    IF \A i \in 1..Len(data) : data[i].val.email # user.email
    THEN [users |-> data, out |-> Raised("ValueError", "does not exist")]
    ELSE LET i == CHOOSE j \in 1..Len(data) : data[j].val.email = user.email
         IN [users |-> [data EXCEPT ![i].val = Merge(data[i].val, user)],
             out |-> Returned(user)]

\* variant of update_user that stores the given record in place of the
\* stored one
update_user_Replace(data, user) ==
    IF user.id \notin Keys(data)
    THEN [users |-> data, out |-> Raised("ValueError", "does not exist")]
    ELSE LET i == IndexOf(data, user.id)
         IN [users |-> [data EXCEPT ![i].val = user],
             out |-> Returned(user)]

\* variant of update_user that leaves the stored email as it is
update_user_NoEmail(data, user) ==
    IF user.id \notin Keys(data)
    THEN [users |-> data, out |-> Raised("ValueError", "does not exist")]
    ELSE LET i == IndexOf(data, user.id)
             merged == Merge(data[i].val, user)
         IN [users |-> [data EXCEPT
                          ![i].val = [merged EXCEPT !.email = data[i].val.email]],
             out |-> Returned(user)]

\* MemoryUserRepository.update_user
update_user(data, user) ==
    IF user.id \notin Keys(data)
    THEN [users |-> data, out |-> Raised("ValueError", "does not exist")]
    ELSE LET i == IndexOf(data, user.id)
         IN [users |-> [data EXCEPT ![i].val = Merge(data[i].val, user)],
             out |-> Returned(user)]

(***************************************************************************)
(* UserService (domain/users/service.py)                                   *)
(***************************************************************************)
\* UserService.get_user_by_email
get_user_by_email(data, email) ==
    LET r == find_users_by_attributes(data, <<(<<"email", email>>)>>)
    IN IF r.kind = "raise" THEN r
       ELSE IF Len(r.value.items) = 0 THEN Returned(None)
       ELSE Returned(r.value.items[1])

\* variant of UserService.save_new_user that saves without looking for the
\* email
save_new_user_NoCheck(data, dto, id) ==
    repo_save_new_user(data, dto, id)

\* UserService.save_new_user
save_new_user(data, dto, id) ==
    LET existing == get_user_by_email(data, dto.email)
    IN IF existing.kind = "raise" THEN [users |-> data, out |-> existing]
       ELSE IF existing.value # None
       THEN [users |-> data, out |-> Raised("ValueError", "already exists")]
       ELSE repo_save_new_user(data, dto, id)

(***************************************************************************)
(* Directory use cases (domain/users/use_cases)                            *)
(***************************************************************************)
\* variant of GetUserDetailsUseCase.execute without the organization test
GetUserDetailsUseCase_NoOrgCheck(data, user_id, current_user) ==
    IF current_user = None THEN Returned(None)
    ELSE Returned(get_user_by_id(data, user_id))

\* variant of GetUserDetailsUseCase.execute without the is_admin branch
GetUserDetailsUseCase_NoAdmin(data, user_id, current_user) ==
    IF current_user = None THEN Returned(None)
    ELSE LET user == get_user_by_id(data, user_id)
         IN IF user # None
               /\ user.organization_id = current_user.organization_id
            THEN Returned(user)
            ELSE Returned(None)

\* variant of GetUserDetailsUseCase.execute with a self-access path
GetUserDetailsUseCase_SelfAccess(data, user_id, current_user) ==
    IF current_user = None THEN Returned(None)
    ELSE LET user == get_user_by_id(data, user_id)
         IN IF current_user.is_admin THEN Returned(user)
            ELSE IF user # None
                    /\ (\/ user.organization_id = current_user.organization_id
                        \/ user.id = current_user.id)
            THEN Returned(user)
            ELSE Returned(None)

\* variant of GetUserDetailsUseCase.execute that reports a record of another
\* organization as forbidden instead of absent
GetUserDetailsUseCase_Forbidden(data, user_id, current_user) ==
    IF current_user = None THEN Returned(None)
    ELSE LET user == get_user_by_id(data, user_id)
         IN IF current_user.is_admin THEN Returned(user)
            ELSE IF user = None THEN Returned(None)
            ELSE IF user.organization_id = current_user.organization_id
            THEN Returned(user)
            ELSE Returned([tag |-> "Forbidden"])

\* GetUserDetailsUseCase.execute
GetUserDetailsUseCase(data, user_id, current_user) ==
    IF current_user = None THEN Returned(None)
    ELSE LET user == get_user_by_id(data, user_id)
         IN IF current_user.is_admin THEN Returned(user)
            ELSE IF user # None
                    /\ user.organization_id = current_user.organization_id
            THEN Returned(user)
            ELSE Returned(None)

\* variant of ListUsersUseCase.execute that lists all users for an anonymous caller
ListUsersUseCase_Anonymous(data, current_user) ==
    IF current_user = None THEN find_all(data)
    ELSE IF current_user.is_admin THEN find_all(data)
    ELSE find_users_by_attributes(
            data, <<(<<"organization_id", current_user.organization_id>>)>>)

\* variant of ListUsersUseCase.execute without the is_admin branch
ListUsersUseCase_NoAdmin(data, current_user) ==
    IF current_user = None THEN Returned(ListOf(<<>>))
    ELSE find_users_by_attributes(
            data, <<(<<"organization_id", current_user.organization_id>>)>>)

\* variant of ListUsersUseCase.execute that leaves the caller's own record
\* out of the list of a caller who is no admin
ListUsersUseCase_NoSelf(data, current_user) ==
    IF current_user = None THEN Returned(ListOf(<<>>))
    ELSE IF current_user.is_admin THEN find_all(data)
    ELSE LET r == find_users_by_attributes(
                      data, <<(<<"organization_id", current_user.organization_id>>)>>)
         IN Returned(ListOf(SelectSeq(r.value.items,
                                      LAMBDA u : u.id # current_user.id)))

\* ListUsersUseCase.execute
ListUsersUseCase(data, current_user) ==
    IF current_user = None THEN Returned(ListOf(<<>>))
    ELSE IF current_user.is_admin THEN find_all(data)
    ELSE find_users_by_attributes(
            data, <<(<<"organization_id", current_user.organization_id>>)>>)

\* UserProfile(**fields): the profile entity, of the shape of the caller
\* identity; fields beyond its own are dropped
UserProfile(r) ==
    [id |-> r.id, email |-> r.email,
     organization_id |-> r.organization_id, is_admin |-> r.is_admin]

\* variant of GetUserProfileUseCase.execute that reads the profile from the
\* record stored under the caller's id
GetUserProfileUseCase_Lookup(current_user) ==
    IF current_user = None THEN Returned(None)
    ELSE LET user == get_user_by_id(users, current_user.id)
         IN IF user = None THEN Returned(None) ELSE Returned(UserProfile(user))

\* GetUserProfileUseCase.execute
GetUserProfileUseCase(current_user) ==
    IF current_user = None THEN Returned(None)
    ELSE Returned(UserProfile(current_user))

(***************************************************************************)
(* Session tokens (jose.jwt as used by domain/auth/service.py)             *)
(* A token is its three dot-separated segments: header, claims, signature. *)
(***************************************************************************)
SupportedAlgorithms == {"HS256", "HS384", "HS512"}

\* HMAC of the signing input (header and claims segments) under key
Sign(key, algorithm, header, claims) ==
    [hmac |-> algorithm, key |-> key, msg |-> <<header, claims>>]

\* timegm(d.utctimetuple()): the whole seconds of a datetime
Seconds(d) == d \div TicksPerSecond

\* jwt.encode(claims, key, algorithm): the datetime of the exp claim becomes
\* its whole seconds, then the segments are signed
jwt_encode(claims, key, algorithm) ==
    IF algorithm \notin SupportedAlgorithms
    THEN Raised("JWSError", "Algorithm not supported")
    ELSE LET header == [alg |-> algorithm, typ |-> "JWT"]
             payload == IF "exp" \in DOMAIN claims
                        THEN [claims EXCEPT !["exp"] = Seconds(@)]
                        ELSE claims
         IN Returned(<<header, payload, Sign(key, algorithm, header, payload)>>)

\* jwt.decode(token, key, algorithms=[algorithm]) at time t: the segments,
\* the algorithm, the signature, the claims, then exp against the whole
\* seconds of utcnow()
jwt_decode(token, key, algorithm, t) ==
    IF Len(token) # 3
    THEN Raised("JWTError", "Not enough segments")
    ELSE LET header == token[1]
             claims == token[2]
             signature == token[3]
         IN IF "alg" \notin DOMAIN header
            THEN Raised("JWTError", "No algorithm was specified")
            ELSE IF header.alg # algorithm
            THEN Raised("JWTError", "The specified alg value is not allowed")
            ELSE IF signature # Sign(key, header.alg, header, claims)
            THEN Raised("JWTError", "Signature verification failed")
            ELSE IF "garbage" \in DOMAIN claims
            THEN Raised("JWTError", "Invalid payload string")
            ELSE IF "exp" \in DOMAIN claims /\ claims.exp < Seconds(t)
            THEN Raised("ExpiredSignatureError", "Signature has expired")
            ELSE Returned(claims)

(***************************************************************************)
(* AuthService (domain/auth/service.py)                                    *)
(***************************************************************************)
\* variant of create_access_token that leaves token_ttl out of the expiry
create_access_token_NoTtl(payload, cfg, t) ==
    jwt_encode(Merge(payload, [exp |-> t]), cfg.secret, cfg.algorithm)

\* create_access_token(payload, config) at time t
create_access_token(payload, cfg, t) ==
    LET expire == t + cfg.token_ttl * TicksPerSecond
        to_encode == Merge(payload, [exp |-> expire])
    IN jwt_encode(to_encode, cfg.secret, cfg.algorithm)

\* variant of get_token_user that never marks the token user as admin
get_token_user_NoAdmin(user) ==
    [id |-> user.id, email |-> user.email,
     organization_id |-> user.organization_id, is_admin |-> FALSE]

\* variant of get_token_user that passes the whole record on
get_token_user_WholeRecord(user) ==
    user

\* get_token_user(user)
get_token_user(user) ==
    SessionUser(user)

\* verify_password(plain_password, hashed_password)
verify_password(plain_password, hashed_password) ==
    HashOf(plain_password) = hashed_password

\* AuthService.get_token(user) at time t
get_token(user, cfg, t) ==
    LET payload == [sub |-> user.id, user |-> get_token_user(user)]
    IN create_access_token(payload, cfg, t)

SessionUserFields == {"id", "email", "organization_id", "is_admin"}

\* the body of the try block of AuthService.get_session_user
get_session_user_try(token, cfg, t) ==
    LET decoded == jwt_decode(token, cfg.secret, cfg.algorithm, t)
    IN IF decoded.kind = "raise" THEN decoded
       ELSE IF "user" \notin DOMAIN decoded.value
       THEN Raised("KeyError", "user")
       ELSE IF ~(SessionUserFields \subseteq DOMAIN decoded.value.user)
       THEN Raised("ValidationError", "field required")
       ELSE Returned(SessionUser(decoded.value.user))

\* variant of AuthService.get_session_user that handles the errors of
\* jwt.decode only
get_session_user_JWTErrorOnly(token, cfg, t) ==
    LET r == get_session_user_try(token, cfg, t)
    IN IF r.kind = "raise"
          /\ r.value.error \in {"JWTError", "ExpiredSignatureError"}
       THEN Returned(None)
       ELSE r

\* variant of AuthService.get_session_user that reads the user from the
\* record stored under the sub claim
get_session_user_Lookup(token, cfg, t) ==
    LET r == get_session_user_try(token, cfg, t)
    IN IF r.kind = "raise" THEN Returned(None)
       ELSE IF r.value.id \notin Keys(users) THEN Returned(None)
       ELSE Returned(SessionUser(Lookup(users, r.value.id)))

\* AuthService.get_session_user(token) at time t: except Exception: return None
get_session_user(token, cfg, t) ==
    LET r == get_session_user_try(token, cfg, t)
    IN IF r.kind = "raise" THEN Returned(None) ELSE r

\* UserRepository.get_auth_user_by_email(email): the record with its
\* password hash, None when no record has the email
get_auth_user_by_email(data, email) ==
    IF \E i \in 1..Len(data) : data[i].val.email = email
    THEN AuthUser(data[CHOOSE i \in 1..Len(data) :
                         /\ data[i].val.email = email
                         /\ \A j \in 1..(i - 1) : data[j].val.email # email].val)
    ELSE None

AuthErrorMessage == "AuthenticationError: email and password do not match."

\* variant of AuthService.authenticate_user that reports an unknown email
\* with a message of its own
authenticate_user_UnknownEmail(data, input, cfg, t) ==
    LET user == get_auth_user_by_email(data, input.email)
    IN IF user = None THEN Raised("AuthError", "AuthenticationError: unknown email.")
       ELSE IF ~verify_password(input.password, user.password_hash)
       THEN Raised("AuthError", AuthErrorMessage)
       ELSE LET token == get_token(user, cfg, t)
            IN IF token.kind = "raise" THEN token
               ELSE Returned([token |-> token.value])

\* AuthService.authenticate_user(input) at time t
authenticate_user(data, input, cfg, t) ==
    LET user == get_auth_user_by_email(data, input.email)
    IN IF user = None THEN Raised("AuthError", AuthErrorMessage)
       ELSE IF ~verify_password(input.password, user.password_hash)
       THEN Raised("AuthError", AuthErrorMessage)
       ELSE LET token == get_token(user, cfg, t)
            IN IF token.kind = "raise" THEN token
               ELSE Returned([token |-> token.value])

(***************************************************************************)
(* The session middleware (adapters/http/middleware/get_token_user.py)     *)
(* A string is the sequence of its characters; the compact serialization   *)
(* of a token, which holds no space, stands as a single element.           *)
(***************************************************************************)
UpperCase == <<"A", "B", "C", "D", "E", "F", "G", "H", "I", "J", "K", "L", "M",
               "N", "O", "P", "Q", "R", "S", "T", "U", "V", "W", "X", "Y", "Z">>
LowerCase == <<"a", "b", "c", "d", "e", "f", "g", "h", "i", "j", "k", "l", "m",
               "n", "o", "p", "q", "r", "s", "t", "u", "v", "w", "x", "y", "z">>

\* str.lower()
lower(s) ==
    [i \in 1..Len(s) |->
        IF \E k \in 1..Len(UpperCase) : UpperCase[k] = s[i]
        THEN LowerCase[CHOOSE k \in 1..Len(UpperCase) : UpperCase[k] = s[i]]
        ELSE s[i]]

\* str.startswith(prefix)
startswith(s, prefix) ==
    /\ Len(s) >= Len(prefix)
    /\ SubSeq(s, 1, Len(prefix)) = prefix

\* str.split(sep) for a separator of one character: the pieces between the
\* separators, empty pieces included
RECURSIVE split(_, _)
split(s, sep) ==
    IF \A i \in 1..Len(s) : s[i] # sep
    THEN <<s>>
    ELSE LET i == CHOOSE j \in 1..Len(s) :
                    s[j] = sep /\ \A k \in 1..(j - 1) : s[k] # sep
         IN <<SubSeq(s, 1, i - 1)>> \o split(SubSeq(s, i + 1, Len(s)), sep)

\* get_token_from_header(request)
get_token_from_header(headers) ==
    IF "authorization" \notin DOMAIN headers THEN <<>>
    ELSE LET auth_header == headers.authorization
         IN IF startswith(lower(auth_header), <<"b", "e", "a", "r", "e", "r", " ">>)
            THEN split(auth_header, " ")[2]
            ELSE auth_header

(***************************************************************************)
(* Actions of the store and the directory                                  *)
(***************************************************************************)
AuthUnchanged == UNCHANGED <<config, now, issued, expiredSeen, tasks>>

Call(op, arg, out) == [op |-> op, arg |-> arg, out |-> out]

\* UserService.save_new_user(data); the uuid4 loop ends only on a free id
SaveNewUser ==
    \E dto \in NewUserDTOs, id \in Ids :
        /\ id \notin Keys(users)
        /\ LET r == save_new_user(users, dto, id)
           IN /\ users' = r.users
              /\ last' = Call("save_new_user", [data |-> dto], r.out)
        /\ AuthUnchanged

\* UserService.update_user(user)
UpdateUser ==
    \E user \in Users :
        /\ LET r == update_user(users, user)
           IN /\ users' = r.users
              /\ last' = Call("update_user", [user |-> user], r.out)
        /\ AuthUnchanged

\* UserService.delete_user(id)
DeleteUser ==
    \E id \in Ids :
        /\ LET r == delete_user(users, id)
           IN /\ users' = r.users
              /\ last' = Call("delete_user", [id |-> id], r.out)
        /\ AuthUnchanged

\* the user query: GetUserDetailsUseCase().execute(user_id, current_user)
GetUserDetails ==
    \E user_id \in Ids, current_user \in Callers :
        /\ last' = Call("getUserDetails",
                        [user_id |-> user_id, current_user |-> current_user],
                        GetUserDetailsUseCase(users, user_id, current_user))
        /\ UNCHANGED users
        /\ AuthUnchanged

\* the users query: ListUsersUseCase().execute(current_user)
ListUsers ==
    \E current_user \in Callers :
        /\ last' = Call("listUsers", [current_user |-> current_user],
                        ListUsersUseCase(users, current_user))
        /\ UNCHANGED users
        /\ AuthUnchanged

\* the profile query: GetUserProfileUseCase().execute(current_user)
GetUserProfile ==
    \E current_user \in Callers :
        /\ last' = Call("getProfile", [current_user |-> current_user],
                        GetUserProfileUseCase(current_user))
        /\ UNCHANGED users
        /\ AuthUnchanged

\* UserService.get_user_by_id(id)
GetUserById ==
    \E id \in Ids :
        /\ last' = Call("get_user_by_id", [id |-> id],
                        Returned(get_user_by_id(users, id)))
        /\ UNCHANGED users
        /\ AuthUnchanged

\* the lists of ids asked for at once
IdLists == UNION {[1..n -> Ids] : n \in 0..MaxIds}

\* UserService.get_users_by_ids(ids)
GetUsersByIds ==
    \E ids \in IdLists :
        /\ last' = Call("get_users_by_ids", [ids |-> ids],
                        get_users_by_ids(users, ids))
        /\ UNCHANGED users
        /\ AuthUnchanged

\* UserService.find_all()
FindAll ==
    /\ last' = Call("find_all", None, find_all(users))
    /\ UNCHANGED users
    /\ AuthUnchanged

\* the attribute dicts asked for, as sequences of <<key, value>> items: the
\* empty one, fields of the records, and a field the records do not have
Filters ==
    LET email == <<"email", "cloe@example.com">>
        org == <<"organization_id", "GROUP-SHOESTRING-LTD">>
        no_org == <<"organization_id", "NO-SUCH-ORG">>
        admin == <<"is_admin", TRUE>>
        nickname == <<"nickname", "cloe">>
    IN { <<>>, <<email>>, <<org>>, <<no_org>>, <<admin>>,
         <<org, admin>>, <<org, email>>,
         <<nickname>>, <<org, nickname>>, <<no_org, nickname>> }

\* variant: the filter is applied to the dict itself, which keeps the matching
\* records only
FindUsersByAttributes_InPlace ==
    \E attributes \in Filters :
        LET r == find_users_by_attributes(users, attributes)
        IN /\ last' = Call("find_users_by_attributes", [attributes |-> attributes], r)
           /\ users' = IF r.kind = "raise" THEN users
                        ELSE SelectSeq(users, LAMBDA e :
                                 \E i \in 1..Len(r.value.items) :
                                     r.value.items[i] = User(e.val))
           /\ AuthUnchanged

\* UserService.find_users_by_attributes(attributes)
FindUsersByAttributes ==
    \E attributes \in Filters :
        /\ last' = Call("find_users_by_attributes", [attributes |-> attributes],
                        find_users_by_attributes(users, attributes))
        /\ UNCHANGED users
        /\ AuthUnchanged

\* AuthService.config as set in app/config.py, the secret from TOKEN_SECRET
Configs ==
    [algorithm : {"HS256", "HS512"},
     secret : {"used to sign tokens", "secret"},
     token_ttl : {1, 2}]

\* the dict loaded from the users fixture when the environment is "test"
Fixture ==
    << [key |-> 1,
        val |-> WithId(CHOOSE d \in NewUserDTOs : d.email = "cloe@example.com", 1)],
       [key |-> 2,
        val |-> WithId(CHOOSE d \in NewUserDTOs : d.email = "admin@example.com", 2)] >>

NoCall == Call("none", None, Returned(None))

\* the coroutines that may be in flight at once, none of them started
Procs == {1, 2}
NoTasks == [p \in Procs |-> [pc |-> "idle"]]

\* MemoryUserRepository.__init__: the empty dict, or the fixture records
Init ==
    /\ users \in {<<>>, Fixture}
    /\ last = NoCall
    /\ config = [algorithm |-> "HS256", secret |-> "used to sign tokens",
                  token_ttl |-> 2]
    /\ now = 0
    /\ issued = None
    /\ expiredSeen = FALSE
    /\ tasks = NoTasks

Next ==
    \/ SaveNewUser
    \/ UpdateUser
    \/ DeleteUser
    \/ GetUserDetails
    \/ ListUsers
    \/ GetUserProfile
    \/ GetUserById
    \/ GetUsersByIds
    \/ FindAll
    \/ FindUsersByAttributes

Spec == Init /\ [][Next]_vars

(***************************************************************************)
(* Actions of the session-token codec and the login flow                   *)
(***************************************************************************)
\* the users a token is issued for
TokenUsers ==
    {AuthUser(WithId(d, 1)) : d \in NewUserDTOs} \cup {AuthUser(Fixture[2].val)}

LoginInputs ==
    [email : {"cloe@example.com", "admin@example.com", "NO_SUCH_EMAIL@example.com"},
     password : Passwords]

OtherSecret(secret) == IF secret = "secret" THEN "used to sign tokens" ELSE "secret"
OtherAlgorithm(algorithm) == IF algorithm = "HS256" THEN "HS512" ELSE "HS256"

\* strings that are no token at all
MalformedTokens == { <<>>, <<[garbage |-> "ey"], [garbage |-> "J0"]>> }

\* strings made from a token t: t itself, t with its last characters cut off,
\* t signed with another secret or algorithm, and correctly signed tokens
\* whose claims lack the user claim, part of it, or the expiry
Variants(t, cfg) ==
    LET header == t[1]
        claims == t[2]
        resign(c) == <<header, c, Sign(cfg.secret, cfg.algorithm, header, c)>>
        alg2 == [alg |-> OtherAlgorithm(cfg.algorithm), typ |-> "JWT"]
    IN { t,
         <<header, claims, [garbage |-> "cut"]>>,
         <<header, claims,
           Sign(OtherSecret(cfg.secret), cfg.algorithm, header, claims)>>,
         <<alg2, claims, Sign(cfg.secret, alg2.alg, alg2, claims)>>,
         resign([sub |-> claims.sub, exp |-> claims.exp]),
         resign([sub |-> claims.sub, exp |-> claims.exp,
                 user |-> [id |-> claims.user.id, email |-> claims.user.email]]),
         resign([sub |-> claims.sub, user |-> claims.user]),
         resign([garbage |-> "not json"]) }

TokenInputs ==
    MalformedTokens \cup (IF issued = None THEN {} ELSE Variants(issued.token, config))

\* time passes
Tick ==
    /\ now < MaxTime
    /\ now' = now + 1
    /\ UNCHANGED <<users, last, config, issued, expiredSeen, tasks>>

\* AuthService.get_token(user)
GetToken ==
    \E user \in TokenUsers :
        LET r == get_token(user, config, now)
        IN /\ last' = Call("get_token", [user |-> user, at |-> now], r)
           /\ issued' = IF r.kind = "raise" THEN issued
                        ELSE [token |-> r.value, at |-> now, user |-> user]
           /\ expiredSeen' = (r.kind = "raise" /\ expiredSeen)
           /\ UNCHANGED <<users, config, now, tasks>>

\* AuthService.get_session_user(token)
GetSessionUser ==
    \E token \in TokenInputs :
        LET r == get_session_user(token, config, now)
        IN /\ last' = Call("get_session_user", [token |-> token, at |-> now], r)
           /\ expiredSeen' =
                (expiredSeen \/ (/\ issued # None
                                 /\ token = issued.token
                                 /\ r = Returned(None)
                                 /\ Seconds(now) > issued.token[2].exp))
           /\ UNCHANGED <<users, config, now, issued, tasks>>

\* AuthService.authenticate_user(input)
AuthenticateUser ==
    \E input \in LoginInputs :
        LET r == authenticate_user(users, input, config, now)
        IN /\ last' = Call("authenticate_user", [input |-> input, at |-> now], r)
           /\ issued' = IF r.kind = "raise" THEN issued
                        ELSE [token |-> r.value.token, at |-> now,
                              user |-> get_auth_user_by_email(users, input.email)]
           /\ expiredSeen' = (r.kind = "raise" /\ expiredSeen)
           /\ UNCHANGED <<users, config, now, tasks>>

AuthInit ==
    /\ users = Fixture
    /\ last = NoCall
    /\ config \in Configs
    /\ now = 0
    /\ issued = None
    /\ expiredSeen = FALSE
    /\ tasks = NoTasks

AuthNext ==
    \/ Tick
    \/ GetToken
    \/ GetSessionUser
    \/ AuthenticateUser

AuthSpec == AuthInit /\ [][AuthNext]_vars

(***************************************************************************)
(* Actions of the session middleware                                       *)
(***************************************************************************)
\* the compact serialization of the token last issued
TokenText == "eyJhbGciOi.eyJzdWIiOi.c2lnbmF0dXJl"

\* the token a string deserializes to: no segment for the empty string, the
\* token last issued for its serialization, segments of no meaning otherwise
TokenOf(text) ==
    IF text = <<>> THEN <<>>
    ELSE IF issued # None /\ text = <<TokenText>> THEN issued.token
    ELSE <<[garbage |-> "ey"], [garbage |-> "J0"]>>

\* the strings sent as a token: one that is no token, and the token last issued
TokenTexts ==
    {<<"a", "b", "c">>} \cup (IF issued = None THEN {} ELSE {<<TokenText>>})

\* values of the authorization header made from a string
AuthorizationValues(text) ==
    LET Bearer == <<"B", "e", "a", "r", "e", "r">>
        BEARER == <<"B", "E", "A", "R", "E", "R">>
        Basic == <<"B", "a", "s", "i", "c">>
    IN { Bearer \o <<" ">> \o text,
         lower(Bearer) \o <<" ">> \o text,
         BEARER \o <<" ">> \o text,
         text,
         Basic \o <<" ">> \o text,
         Bearer \o text,
         Bearer \o <<" ">> \o text \o <<" ", "x">>,
         Bearer \o <<" ", " ">> \o text,
         Bearer \o <<" ">>,
         <<>> }

\* the headers of a request, with and without authorization
Requests ==
    {[host |-> <<"h">>]}
    \cup {[host |-> <<"h">>, authorization |-> v] :
            v \in UNION {AuthorizationValues(text) : text \in TokenTexts}}

\* get_token_user(request) of the middleware at time t: the token taken from
\* the header and the user set on request.state
middleware_get_token_user(headers, cfg, t) ==
    LET token == get_token_from_header(headers)
        session_user == get_session_user(TokenOf(token), cfg, t)
    IN Returned([token |-> token, user |-> session_user.value])

\* the session middleware handles a request
GetTokenUser ==
    \E headers \in Requests :
        /\ last' = Call("get_token_user", [headers |-> headers, at |-> now],
                        middleware_get_token_user(headers, config, now))
        /\ UNCHANGED <<users, config, now, issued, expiredSeen, tasks>>

MiddlewareInit ==
    /\ users = Fixture
    /\ last = NoCall
    /\ config = [algorithm |-> "HS256", secret |-> "used to sign tokens",
                  token_ttl |-> 1]
    /\ now = 0
    /\ issued = None
    /\ expiredSeen = FALSE
    /\ tasks = NoTasks

MiddlewareNext ==
    \/ Tick
    \/ GetToken
    \/ GetTokenUser

MiddlewareSpec == MiddlewareInit /\ [][MiddlewareNext]_vars

(***************************************************************************)
(* Requests of a session: the middleware sets request.state.user from the  *)
(* token, the resolver passes it to the use case as current_user           *)
(***************************************************************************)
\* the users query sent with the token last issued, in the whole second at
UsersQuery ==
    /\ issued # None
    /\ LET current_user == get_session_user(issued.token, config, now)
       IN last' = Call("users", [token |-> issued.token, at |-> Seconds(now)],
                       [current_user |-> current_user.value,
                        result |-> ListUsersUseCase(users, current_user.value)])
    /\ UNCHANGED <<users, config, now, issued, expiredSeen, tasks>>

\* the user query sent with the token last issued, in the whole second at
UserQuery ==
    \E user_id \in Ids :
        /\ issued # None
        /\ LET current_user == get_session_user(issued.token, config, now)
           IN last' = Call("user", [token |-> issued.token, at |-> Seconds(now),
                                     user_id |-> user_id],
                           [current_user |-> current_user.value,
                            result |-> GetUserDetailsUseCase(users, user_id,
                                                             current_user.value)])
        /\ UNCHANGED <<users, config, now, issued, expiredSeen, tasks>>

\* a whole second passes
TickSecond ==
    /\ now + TicksPerSecond <= MaxTime
    /\ now' = now + TicksPerSecond
    /\ UNCHANGED <<users, last, config, issued, expiredSeen, tasks>>

SessionNext ==
    \/ TickSecond
    \/ AuthenticateUser
    \/ UpdateUser
    \/ DeleteUser
    \/ UsersQuery
    \/ UserQuery

SessionSpec == MiddlewareInit /\ [][SessionNext]_vars

(***************************************************************************)
(* The operations that only read                                           *)
(***************************************************************************)
ReadNext ==
    \/ FindAll
    \/ FindUsersByAttributes
    \/ GetUserById
    \/ GetUsersByIds
    \/ GetUserProfile
    \/ GetUserDetails
    \/ ListUsers
    \/ GetToken
    \/ GetSessionUser
    \/ AuthenticateUser

ReadSpec == Init /\ [][ReadNext]_vars

(***************************************************************************)
(* Calls of UserService in flight at once                                  *)
(* The calls are coroutines of one event loop: control passes from one to  *)
(* another at an await only.  UserService.save_new_user awaits the lookup  *)
(* of the email and then the repository's save_new_user; update_user and   *)
(* delete_user await the repository's method, which holds no await and     *)
(* runs as one step.                                                       *)
(***************************************************************************)
Done == {p \in Procs : tasks[p].pc = "done"}

\* the task of a call that has returned or raised, and its place in the
\* order in which the calls ended
Finish(op, arg, out) ==
    [pc |-> "done", op |-> op, arg |-> arg, out |-> out,
     order |-> Cardinality(Done) + 1]

Awaiting(op, arg) == [pc |-> "awaiting", op |-> op, arg |-> arg]

TaskUnchanged == UNCHANGED <<last, config, now, issued, expiredSeen>>

\* UserService.save_new_user up to its second await:
\* existing = await self.get_user_by_email(data.email), and the raise
SaveNewUserCheck ==
    \E p \in Procs, dto \in NewUserDTOs :
        /\ tasks[p].pc = "idle"
        /\ LET existing == get_user_by_email(users, dto.email)
               arg == [data |-> dto]
           IN tasks' = [tasks EXCEPT ![p] =
                  IF existing.kind = "raise"
                  THEN Finish("save_new_user", arg, existing)
                  ELSE IF existing.value # None
                  THEN Finish("save_new_user", arg,
                              Raised("ValueError", "already exists"))
                  ELSE Awaiting("save_new_user", arg)]
        /\ UNCHANGED users
        /\ TaskUnchanged

\* UserService.save_new_user from its second await on:
\* return await self._repository.save_new_user(data)
SaveNewUserInsert ==
    \E p \in Procs, id \in Ids :
        /\ tasks[p].pc = "awaiting"
        /\ tasks[p].op = "save_new_user"
        /\ id \notin Keys(users)
        /\ LET r == repo_save_new_user(users, tasks[p].arg.data, id)
           IN /\ users' = r.users
              /\ tasks' = [tasks EXCEPT
                             ![p] = Finish("save_new_user", tasks[p].arg, r.out)]
        /\ TaskUnchanged

\* UserService.update_user(user) is called
CallUpdateUser ==
    \E p \in Procs, user \in Users :
        /\ tasks[p].pc = "idle"
        /\ tasks' = [tasks EXCEPT ![p] = Awaiting("update_user", [user |-> user])]
        /\ UNCHANGED users
        /\ TaskUnchanged

\* return await self._repository.update_user(user)
RunUpdateUser ==
    \E p \in Procs :
        /\ tasks[p].pc = "awaiting"
        /\ tasks[p].op = "update_user"
        /\ LET r == update_user(users, tasks[p].arg.user)
           IN /\ users' = r.users
              /\ tasks' = [tasks EXCEPT
                             ![p] = Finish("update_user", tasks[p].arg, r.out)]
        /\ TaskUnchanged

\* UserService.delete_user(id) is called
CallDeleteUser ==
    \E p \in Procs, id \in Ids :
        /\ tasks[p].pc = "idle"
        /\ tasks' = [tasks EXCEPT ![p] = Awaiting("delete_user", [id |-> id])]
        /\ UNCHANGED users
        /\ TaskUnchanged

\* return await self._repository.delete_user(id)
RunDeleteUser ==
    \E p \in Procs :
        /\ tasks[p].pc = "awaiting"
        /\ tasks[p].op = "delete_user"
        /\ LET r == delete_user(users, tasks[p].arg.id)
           IN /\ users' = r.users
              /\ tasks' = [tasks EXCEPT
                             ![p] = Finish("delete_user", tasks[p].arg, r.out)]
        /\ TaskUnchanged

TaskNext ==
    \/ SaveNewUserCheck
    \/ SaveNewUserInsert
    \/ CallUpdateUser
    \/ RunUpdateUser
    \/ CallDeleteUser
    \/ RunDeleteUser

TaskSpec == Init /\ [][TaskNext]_vars

(***************************************************************************)
(* Properties of the directory use cases (checked under Spec)              *)
(***************************************************************************)
IsCall(op) == last.op = op

NonAdminCaller == last.arg.current_user # None /\ ~last.arg.current_user.is_admin
AdminCaller == last.arg.current_user # None /\ last.arg.current_user.is_admin

\* the dict entries whose record belongs to organization org, in dict order
OrgPart(data, org) == SelectSeq(data, LAMBDA e : e.val.organization_id = org)

\* C1: for a non-admin caller, getUserDetails of an id that has no record, or
\* whose record belongs to another organization, returns None and raises
\* nothing.
C1_NonAdminOutsideOrgAbsent ==
    (/\ IsCall("getUserDetails")
     /\ NonAdminCaller
     /\ \/ last.arg.user_id \notin Keys(users)
        \/ Lookup(users, last.arg.user_id).organization_id
             # last.arg.current_user.organization_id)
    => last.out = Returned(None)

C1_Witness ==
    /\ IsCall("getUserDetails")
    /\ NonAdminCaller
    /\ last.arg.user_id \in Keys(users)
    /\ Lookup(users, last.arg.user_id).organization_id
         # last.arg.current_user.organization_id
    /\ last.out = Returned(None)

\* C2: for an admin caller, getUserDetails returns the stored record of the
\* id when there is one, whatever the organizations, and None when there is
\* none.
C2_AdminGetsAnyRecord ==
    (IsCall("getUserDetails") /\ AdminCaller)
    => IF last.arg.user_id \in Keys(users)
       THEN last.out = Returned(User(Lookup(users, last.arg.user_id)))
       ELSE last.out = Returned(None)

C2_Witness ==
    /\ IsCall("getUserDetails")
    /\ AdminCaller
    /\ last.arg.user_id \in Keys(users)
    /\ Lookup(users, last.arg.user_id).organization_id
         # last.arg.current_user.organization_id
    /\ last.out = Returned(User(Lookup(users, last.arg.user_id)))

\* C3: for a non-admin caller, getUserDetails returns the record when its
\* organization_id equals the caller's; the caller's own id is served by that
\* rule only, so a caller whose organization_id differs from the one stored
\* under the caller's own id gets None.
C3_OrgMatchOnly ==
    (/\ IsCall("getUserDetails")
     /\ NonAdminCaller
     /\ last.arg.user_id \in Keys(users))
    => LET stored == Lookup(users, last.arg.user_id)
       IN /\ stored.organization_id = last.arg.current_user.organization_id
               => last.out = Returned(User(stored))
          /\ (/\ last.arg.user_id = last.arg.current_user.id
              /\ stored.organization_id # last.arg.current_user.organization_id)
               => last.out = Returned(None)

C3_Witness ==
    /\ IsCall("getUserDetails")
    /\ NonAdminCaller
    /\ last.arg.user_id \in Keys(users)
    /\ last.arg.user_id = last.arg.current_user.id
    /\ Lookup(users, last.arg.user_id).organization_id
         # last.arg.current_user.organization_id
    /\ last.out = Returned(None)

\* C4: with no caller identity, getProfile returns None, getUserDetails
\* returns None and listUsers returns the empty list, in every store state;
\* none of them raises.
C4_AnonymousSeesNothing ==
    /\ (IsCall("getProfile") /\ last.arg.current_user = None)
         => last.out = Returned(None)
    /\ (IsCall("getUserDetails") /\ last.arg.current_user = None)
         => last.out = Returned(None)
    /\ (IsCall("listUsers") /\ last.arg.current_user = None)
         => last.out = Returned(ListOf(<<>>))

C4_Witness ==
    /\ IsCall("listUsers")
    /\ last.arg.current_user = None
    /\ Len(users) > 0
    /\ last.out = Returned(ListOf(<<>>))

\* C5: listUsers returns, for an admin, exactly the stored records (as many
\* as the store holds) and, for a non-admin, exactly the stored records of
\* the caller's organization (as many as there are, none of another
\* organization).
C5_ListUsersExact ==
    /\ (IsCall("listUsers") /\ AdminCaller)
         => /\ last.out.kind = "return"
            /\ Len(last.out.value.items) = Len(users)
            /\ \A i \in 1..Len(users) :
                  last.out.value.items[i] = User(users[i].val)
    /\ (IsCall("listUsers") /\ NonAdminCaller)
         => LET org == last.arg.current_user.organization_id
                mine == {i \in 1..Len(users) : users[i].val.organization_id = org}
            IN /\ last.out.kind = "return"
               /\ Len(last.out.value.items) = Cardinality(mine)
               /\ \A k \in 1..Len(last.out.value.items) :
                     last.out.value.items[k].organization_id = org
               /\ \A i \in mine : \E k \in 1..Len(last.out.value.items) :
                     last.out.value.items[k] = User(users[i].val)

C5_Witness ==
    /\ IsCall("listUsers")
    /\ NonAdminCaller
    /\ Len(users) = 2
    /\ last.out.kind = "return"
    /\ Len(last.out.value.items) = 1

\* C6: what a non-admin caller gets from getUserDetails and listUsers depends
\* only on the records of the caller's own organization: the results in the
\* current store equal the results in the store without the records of the
\* other organizations, which is the store every state with the same
\* own-organization records reduces to; a record of another organization
\* gives the result of an id that does not exist.
C6_NonInterference ==
    /\ \A c \in SessionUsers :
          ~c.is_admin =>
             LET own == OrgPart(users, c.organization_id)
             IN /\ \A id \in Ids :
                      GetUserDetailsUseCase(users, id, c)
                        = GetUserDetailsUseCase(own, id, c)
                /\ ListUsersUseCase(users, c) = ListUsersUseCase(own, c)
    /\ (IsCall("getUserDetails") /\ NonAdminCaller)
         => last.out = GetUserDetailsUseCase(
                          OrgPart(users, last.arg.current_user.organization_id),
                          last.arg.user_id, last.arg.current_user)
    /\ (IsCall("listUsers") /\ NonAdminCaller)
         => last.out = ListUsersUseCase(
                          OrgPart(users, last.arg.current_user.organization_id),
                          last.arg.current_user)

C6_Witness ==
    /\ IsCall("getUserDetails")
    /\ NonAdminCaller
    /\ last.arg.user_id \in Keys(users)
    /\ last.arg.user_id
         \notin Keys(OrgPart(users, last.arg.current_user.organization_id))
    /\ Len(OrgPart(users, last.arg.current_user.organization_id)) = 1
    /\ last.out = Returned(None)

(***************************************************************************)
(* Properties of the session tokens and the login flow (checked under      *)
(* AuthSpec)                                                               *)
(***************************************************************************)
\* the last call verified the token that get_token returned last
VerifiedIssued ==
    /\ IsCall("get_session_user")
    /\ issued # None
    /\ last.arg.token = issued.token

\* the instant at which the expiry carried by the issued token begins
IssuedExpiry == issued.token[2].exp * TicksPerSecond

InvalidToken(token, t) ==
    \/ Len(token) # 3
    \/ /\ Len(token) = 3
       /\ \/ token[3] # Sign(config.secret, config.algorithm, token[1], token[2])
          \/ "garbage" \in DOMAIN token[2]
          \/ "exp" \in DOMAIN token[2] /\ token[2].exp < Seconds(t)
          \/ "user" \notin DOMAIN token[2]
          \/ /\ "user" \in DOMAIN token[2]
             /\ ~(SessionUserFields \subseteq DOMAIN token[2].user)

C9_ExpiryAsStated ==
    /\ issued # None
         => issued.token[2].exp = Seconds(issued.at) + config.token_ttl
    /\ (VerifiedIssued /\ last.arg.at > IssuedExpiry)
         => last.out = Returned(None)
    /\ (VerifiedIssued /\ expiredSeen) => last.out = Returned(None)

\* C9, amended: the token carries the expiry t + token_ttl, t being the
\* second of issue; at every time whose whole second is strictly after that
\* expiry its verification returns None (during the second of its expiry the
\* token is still accepted); once rejected as expired it is never accepted
\* again.
C9_ExpiryWholeSeconds ==
    /\ issued # None
         => issued.token[2].exp = Seconds(issued.at) + config.token_ttl
    /\ (VerifiedIssued /\ Seconds(last.arg.at) > issued.token[2].exp)
         => last.out = Returned(None)
    /\ (VerifiedIssued /\ expiredSeen) => last.out = Returned(None)

C9_Witness ==
    /\ VerifiedIssued
    /\ Seconds(last.arg.at) > issued.token[2].exp
    /\ now > last.arg.at
    /\ expiredSeen
    /\ last.out = Returned(None)

\* the records that hold the email
WithEmail(email) == {i \in 1..Len(users) : users[i].val.email = email}

\* C10: authenticate_user raises AuthError when no record has the email and
\* when the password does not verify against the hash of the record that has
\* it; the error and its message are the same in both cases and no token is
\* returned.
C10_LoginFailureUniform ==
    (/\ IsCall("authenticate_user")
     /\ \/ WithEmail(last.arg.input.email) = {}
        \/ \A i \in WithEmail(last.arg.input.email) :
              users[i].val.password_hash # HashOf(last.arg.input.password))
    => last.out = Raised("AuthError", AuthErrorMessage)

C10_Witness ==
    /\ IsCall("authenticate_user")
    /\ WithEmail(last.arg.input.email) # {}
    /\ \A i \in WithEmail(last.arg.input.email) :
          users[i].val.password_hash # HashOf(last.arg.input.password)
    /\ last.out = Raised("AuthError", AuthErrorMessage)

(***************************************************************************)
(* C11: authenticate_user with the email of an existing record and the     *)
(* matching password returns a token whose claims are sub, the id of that  *)
(* record, and user, exactly the id, email, organization_id and is_admin   *)
(* of that record; beside them the claims hold the expiry only, never the  *)
(* password hash or another field of the record.                           *)
(***************************************************************************)
C11_LoginTokenClaims ==
    IsCall("authenticate_user") =>
        \A i \in WithEmail(last.arg.input.email) :
            HashOf(last.arg.input.password) = users[i].val.password_hash =>
                /\ last.out.kind = "return"
                /\ DOMAIN last.out.value = {"token"}
                /\ LET claims == last.out.value.token[2]
                       record == users[i].val
                   IN /\ DOMAIN claims = {"sub", "user", "exp"}
                      /\ claims.sub = record.id
                      /\ DOMAIN claims.user = SessionUserFields
                      /\ claims.user.id = record.id
                      /\ claims.user.email = record.email
                      /\ claims.user.organization_id = record.organization_id
                      /\ claims.user.is_admin = record.is_admin
                      /\ \A f \in DOMAIN record \ SessionUserFields :
                            f \notin DOMAIN claims /\ f \notin DOMAIN claims.user

\* a login with a known email and its password has answered
C11_Witness ==
    /\ IsCall("authenticate_user")
    /\ \E i \in WithEmail(last.arg.input.email) :
          HashOf(last.arg.input.password) = users[i].val.password_hash
    /\ last.out.kind = "return"

(***************************************************************************)
(* C12: getProfile with a present caller returns a profile whose id,       *)
(* email, organization_id and is_admin are those of the caller identity,   *)
(* in every state of the store: whether a record is stored under the       *)
(* caller's id or not, and whatever that record holds.                     *)
(***************************************************************************)
C12_ProfileIsCaller ==
    (IsCall("getProfile") /\ last.arg.current_user # None) =>
        /\ last.out.kind = "return"
        /\ DOMAIN last.out.value = SessionUserFields
        /\ \A f \in SessionUserFields :
              last.out.value[f] = last.arg.current_user[f]

\* the profile was asked for by a caller whose id is now the key of a
\* record with another email
C12_Witness ==
    /\ IsCall("getProfile")
    /\ last.arg.current_user # None
    /\ last.arg.current_user.id \in Keys(users)
    /\ Lookup(users, last.arg.current_user.id).email
          # last.arg.current_user.email
    /\ last.out.kind = "return"

(***************************************************************************)
(* C13: the token taken from the authorization header is the header value  *)
(* without its prefix when the value starts, in any letter case, with      *)
(* "Bearer ", the header value as it is otherwise, and the empty string    *)
(* when there is no such header; for the empty string no user is set.      *)
(***************************************************************************)
C13_ExtractionAsStated ==
    IsCall("get_token_user") =>
        LET headers == last.arg.headers
            prefix == <<"b", "e", "a", "r", "e", "r", " ">>
            stated ==
                IF "authorization" \notin DOMAIN headers THEN <<>>
                ELSE IF startswith(lower(headers.authorization), prefix)
                THEN SubSeq(headers.authorization, Len(prefix) + 1,
                            Len(headers.authorization))
                ELSE headers.authorization
        IN /\ last.out.value.token = stated
           /\ stated = <<>> => last.out.value.user = None

(***************************************************************************)
(* Properties of the store operations (checked under Spec)                 *)
(* Each is a property of the steps of one operation, the unprimed store    *)
(* being the store the operation was called on.                            *)
(***************************************************************************)
\* a call of op has answered
Step(op) == last'.op = op /\ <<users, last>>' # <<users, last>>

\* the records of the store other than the one under id are kept as they are
OthersKept(id) ==
    \A k \in Keys(users) \ {id} :
        k \in Keys(users') /\ Lookup(users', k) = Lookup(users, k)

(***************************************************************************)
(* C14: save_new_user with the email of a stored record fails with a       *)
(* ValueError and leaves the store as it was; the repository's             *)
(* save_new_user, which always adds a record, has not been invoked.        *)
(***************************************************************************)
C14_DuplicateEmailRejected ==
    [][(Step("save_new_user") /\ WithEmail(last'.arg.data.email) # {}) =>
            /\ last'.out.kind = "raise"
            /\ last'.out.value.error = "ValueError"
            /\ users' = users
            /\ Len(users') = Len(users)]_vars

\* a save with the email of a stored record was refused
C14_Witness ==
    /\ IsCall("save_new_user")
    /\ last.out.kind = "raise"
    /\ WithEmail(last.arg.data.email) # {}

(***************************************************************************)
(* C15: save_new_user with an email no stored record holds adds exactly    *)
(* one record: the store grows by one, the id of the new record is the id  *)
(* of no record stored before, the returned user carries the submitted     *)
(* email, names, organization_id and is_admin, and every record stored     *)
(* before is unchanged.  The call ends as soon as uuid4() yields an id     *)
(* not in use.                                                             *)
(***************************************************************************)
C15_CreateAddsOne ==
    [][(Step("save_new_user") /\ WithEmail(last'.arg.data.email) = {}) =>
            /\ last'.out.kind = "return"
            /\ Len(users') = Len(users) + 1
            /\ Cardinality(Keys(users')) = Cardinality(Keys(users)) + 1
            /\ last'.out.value.id \in Keys(users') \ Keys(users)
            /\ \A f \in {"email", "first_name", "last_name",
                          "organization_id", "is_admin"} :
                  /\ last'.out.value[f] = last'.arg.data[f]
                  /\ Lookup(users', last'.out.value.id)[f] = last'.arg.data[f]
            /\ OthersKept(last'.out.value.id)]_vars

\* a user was added to a store that held a record already
C15_Witness ==
    /\ IsCall("save_new_user")
    /\ last.out.kind = "return"
    /\ Len(users) >= 2
    /\ last.out.value.id \in Keys(users)

(***************************************************************************)
(* C16: update_user and delete_user with an id that has no record fail     *)
(* with a ValueError and leave the store as it was; update_user stores no  *)
(* record under the unknown id.                                            *)
(***************************************************************************)
C16_UnknownIdRejected ==
    [][(\/ Step("update_user") /\ last'.arg.user.id \notin Keys(users)
        \/ Step("delete_user") /\ last'.arg.id \notin Keys(users)) =>
            /\ last'.out.kind = "raise"
            /\ last'.out.value.error = "ValueError"
            /\ users' = users
            /\ Step("update_user") => last'.arg.user.id \notin Keys(users')]_vars

\* an update of an id without record was refused by a store holding a record
C16_Witness ==
    /\ IsCall("update_user")
    /\ last.arg.user.id \notin Keys(users)
    /\ last.out.kind = "raise"
    /\ Len(users) >= 1

(***************************************************************************)
(* C17: delete_user with the id of a stored record returns True and        *)
(* removes that record only: the store shrinks by one, get_user_by_id of   *)
(* the id is None then, a second delete_user of it fails with the          *)
(* ValueError, and every other record is unchanged.                        *)
(***************************************************************************)
C17_DeleteRemovesOne ==
    [][(Step("delete_user") /\ last'.arg.id \in Keys(users)) =>
            /\ last'.out = Returned([tag |-> "True"])
            /\ Len(users') = Len(users) - 1
            /\ last'.arg.id \notin Keys(users')
            /\ get_user_by_id(users', last'.arg.id) = None
            /\ delete_user(users', last'.arg.id).out.kind = "raise"
            /\ delete_user(users', last'.arg.id).out.value.error = "ValueError"
            /\ delete_user(users', last'.arg.id).users = users'
            /\ OthersKept(last'.arg.id)]_vars

\* a record was deleted from a store that keeps another one
C17_Witness ==
    /\ IsCall("delete_user")
    /\ last.out = Returned([tag |-> "True"])
    /\ Len(users) >= 1

(***************************************************************************)
(* C18: update_user with the id of a stored record merges the given record *)
(* onto the stored one: get_user_by_id of the id then returns a record     *)
(* equal to the given one in every User field, the operation returns the   *)
(* given record, and the size of the store and every other record are      *)
(* unchanged.                                                              *)
(***************************************************************************)
C18_UpdateMerges ==
    [][(Step("update_user") /\ last'.arg.user.id \in Keys(users)) =>
            /\ last'.out = Returned(last'.arg.user)
            /\ get_user_by_id(users', last'.arg.user.id) = last'.arg.user
            /\ \A f \in DOMAIN last'.arg.user :
                  Lookup(users', last'.arg.user.id)[f] = last'.arg.user[f]
            /\ Len(users') = Len(users)
            /\ Keys(users') = Keys(users)
            /\ OthersKept(last'.arg.user.id)]_vars

\* a record was updated in a store that holds another one
C18_Witness ==
    /\ IsCall("update_user")
    /\ last.out.kind = "return"
    /\ Len(users) >= 2
    /\ get_user_by_id(users, last.arg.user.id) = last.arg.user

(***************************************************************************)
(* C19: get_user_by_id returns the User of the stored record when the id   *)
(* has a record and None, no error, when it has none; the result depends   *)
(* on the store and the id only and the call leaves the store as it is,    *)
(* so a second call with the same id directly after the first returns an   *)
(* equal result.                                                           *)
(***************************************************************************)
C19_GetById ==
    [][/\ Step("get_user_by_id") =>
            /\ users' = users
            /\ last'.out.kind = "return"
            /\ last'.arg.id \in Keys(users) =>
                    /\ last'.out.value = User(Lookup(users, last'.arg.id))
                    /\ last'.out.value.id = last'.arg.id
            /\ last'.arg.id \notin Keys(users) => last'.out.value = None
       /\ (/\ last.op = "get_user_by_id"
           /\ last'.op = "get_user_by_id"
           /\ last'.arg = last.arg) => last'.out = last.out]_vars

\* an id without record was looked up in a store that holds a record
C19_Witness ==
    /\ IsCall("get_user_by_id")
    /\ last.arg.id \notin Keys(users)
    /\ last.out = Returned(None)
    /\ Len(users) >= 1

(***************************************************************************)
(* C20: get_users_by_ids returns the Users of those given ids that have a  *)
(* record, in the order in which the ids are given, and drops the ids      *)
(* without record; the list is empty when no given id has a record.        *)
(***************************************************************************)
C20_GetByIds ==
    IsCall("get_users_by_ids") =>
        /\ last.out.kind = "return"
        /\ LET ids == last.arg.ids
               items == last.out.value.items
               live == {k \in 1..Len(ids) : ids[k] \in Keys(users)}
               \* the place in ids of the n-th given id that has a record
               place(n) == CHOOSE k \in live :
                               Cardinality({j \in live : j < k}) = n - 1
           IN /\ Len(items) = Cardinality(live)
              /\ live = {} => items = <<>>
              /\ \A n \in 1..Len(items) :
                    /\ items[n].id = ids[place(n)]
                    /\ items[n] = User(Lookup(users, ids[place(n)]))

\* of the ids asked for, one had no record and was dropped, one had a record
C20_Witness ==
    /\ IsCall("get_users_by_ids")
    /\ \E k \in 1..Len(last.arg.ids) : last.arg.ids[k] \notin Keys(users)
    /\ \E k \in 1..Len(last.arg.ids) : last.arg.ids[k] \in Keys(users)
    /\ Len(last.out.value.items) = 1

(***************************************************************************)
(* Properties of the queries of the store (checked under Spec)             *)
(***************************************************************************)
\* the fields of a user
UserFields ==
    {"id", "email", "first_name", "last_name", "organization_id", "is_admin"}

\* the stored records for which every item of the filter holds, as Users
Matching(attributes) ==
    MapUser(SelectSeq(Values(users),
                      LAMBDA record :
                          \A k \in 1..Len(attributes) :
                              record[attributes[k][1]] = attributes[k][2]))

(***************************************************************************)
(* C21: find_users_by_attributes with a filter on fields of the records    *)
(* returns exactly the stored records for which every item of the filter   *)
(* holds; with the empty filter these are the records find_all returns,    *)
(* and the list is empty when no record matches.                           *)
(***************************************************************************)
C21_FilterIsConjunction ==
    (/\ IsCall("find_users_by_attributes")
     /\ \A k \in 1..Len(last.arg.attributes) :
           last.arg.attributes[k][1] \in UserFields) =>
        /\ last.out = Returned(ListOf(Matching(last.arg.attributes)))
        /\ last.arg.attributes = <<>> => last.out = find_all(users)
        /\ Matching(last.arg.attributes) = <<>> => last.out.value.items = <<>>

\* a filter of two items was answered with some of the records, not all
C21_Witness ==
    /\ IsCall("find_users_by_attributes")
    /\ Len(last.arg.attributes) = 2
    /\ \A k \in 1..2 : last.arg.attributes[k][1] \in UserFields
    /\ last.out.kind = "return"
    /\ Len(last.out.value.items) >= 1
    /\ Len(last.out.value.items) < Len(users)

(***************************************************************************)
(* C22: find_users_by_attributes with a filter naming a field that is no   *)
(* user field fails with an error in every state of the store, the empty   *)
(* store and a store in which an earlier item matched no record included;  *)
(* it never returns a list.                                                *)
(***************************************************************************)
C22_UnknownFieldFails ==
    (/\ IsCall("find_users_by_attributes")
     /\ \E k \in 1..Len(last.arg.attributes) :
           last.arg.attributes[k][1] \notin UserFields) =>
        last.out.kind = "raise"

(***************************************************************************)
(* Properties of calls in flight at once (checked under TaskSpec)          *)
(***************************************************************************)
\* the call of task p has ended, it was a call of op
Ended(p, op) == tasks[p].pc = "done" /\ tasks[p].op = op

\* when two calls of save_new_user with one email have both returned, the
\* records they made are two records of the store with that email
BothReturnedShareEmail ==
    \A p, q \in Procs :
        (/\ p # q
         /\ Ended(p, "save_new_user") /\ tasks[p].out.kind = "return"
         /\ Ended(q, "save_new_user") /\ tasks[q].out.kind = "return"
         /\ tasks[p].arg.data.email = tasks[q].arg.data.email) =>
            /\ tasks[p].out.value.id # tasks[q].out.value.id
            /\ {tasks[p].out.value.id, tasks[q].out.value.id} \subseteq
                  {users[i].key : i \in WithEmail(tasks[p].arg.data.email)}

C26_MutationsAtomic ==
    \A p, q \in Procs :
        /\ (/\ p # q
            /\ Ended(q, "delete_user")
            /\ tasks[q].out = Returned([tag |-> "True"])
            /\ Ended(p, "update_user")
            /\ tasks[p].arg.user.id = tasks[q].arg.id
            /\ tasks[p].order > tasks[q].order) =>
               /\ tasks[p].out.kind = "raise"
               /\ tasks[p].out.value.error = "ValueError"
               /\ tasks[q].arg.id \notin Keys(users)
        /\ (/\ p # q
            /\ Ended(p, "update_user") /\ tasks[p].out.kind = "return"
            /\ Ended(q, "update_user") /\ tasks[q].out.kind = "return"
            /\ tasks[p].arg.user.id = tasks[q].arg.user.id
            /\ tasks[p].order > tasks[q].order) =>
               /\ tasks[p].arg.user.id \in Keys(users)
               /\ \A f \in UserFields :
                     Lookup(users, tasks[p].arg.user.id)[f] = tasks[p].arg.user[f]
               /\ User(Lookup(users, tasks[p].arg.user.id))
                     \in {tasks[p].arg.user, tasks[q].arg.user}

\* two updates of one id with different records have both returned
C26_Witness ==
    /\ \A p \in Procs : Ended(p, "update_user") /\ tasks[p].out.kind = "return"
    /\ tasks[1].arg.user.id = tasks[2].arg.user.id
    /\ tasks[1].arg.user.email # tasks[2].arg.user.email
    /\ tasks[1].arg.user.organization_id # tasks[2].arg.user.organization_id

(***************************************************************************)
(* Invariants of the store (checked under Spec)                            *)
(***************************************************************************)
(***************************************************************************)
(* C24: no two records of the store have the same email, in every state    *)
(* reached from a store of distinct emails by calls of save_new_user,      *)
(* update_user and delete_user made one at a time.                         *)
(***************************************************************************)
C24_EmailUnique ==
    \A i, j \in 1..Len(users) :
        users[i].val.email = users[j].val.email => i = j

(***************************************************************************)
(* C27: getUserDetails and listUsers agree: for a present caller and an    *)
(* id, getUserDetails returns a record exactly when the list of listUsers  *)
(* for that caller holds a record of that id, and the two are equal.       *)
(***************************************************************************)
C27_DetailsAgreeWithList ==
    /\ (IsCall("getUserDetails") /\ last.arg.current_user # None) =>
          LET items == ListUsersUseCase(users, last.arg.current_user).value.items
              listed == {k \in 1..Len(items) : items[k].id = last.arg.user_id}
          IN /\ last.out.value # None <=> listed # {}
             /\ \A k \in listed : items[k] = last.out.value
    /\ (IsCall("listUsers") /\ last.arg.current_user # None) =>
          \A id \in Ids :
              LET details == GetUserDetailsUseCase(users, id,
                                                   last.arg.current_user).value
                  items == last.out.value.items
                  listed == {k \in 1..Len(items) : items[k].id = id}
              IN /\ details # None <=> listed # {}
                 /\ \A k \in listed : items[k] = details

\* a caller who is no admin got the details of a record while the store
\* holds a record of another organization, which the caller's list leaves out
C27_Witness ==
    /\ IsCall("getUserDetails")
    /\ last.arg.current_user # None
    /\ ~last.arg.current_user.is_admin
    /\ last.out.value # None
    /\ \E i \in 1..Len(users) :
          users[i].val.organization_id # last.arg.current_user.organization_id

(***************************************************************************)
(* C28: in every state reached from the empty or the fixture store by      *)
(* save_new_user, update_user and delete_user, the id field of each record *)
(* is the key the record is stored under, so no two records have the same  *)
(* id; no call changes the id of a record that stays, and update_user      *)
(* leaves the set of keys as it is.                                        *)
(***************************************************************************)
IdIsKey ==
    /\ \A i \in 1..Len(users) : users[i].val.id = users[i].key
    /\ \A i, j \in 1..Len(users) : users[i].val.id = users[j].val.id => i = j

C28_IdIsKey ==
    /\ []IdIsKey
    /\ [][/\ Step("update_user") => Keys(users') = Keys(users)
           /\ \A k \in Keys(users) \cap Keys(users') :
                 Lookup(users', k).id = Lookup(users, k).id]_vars

\* a record of a store of two records was updated
C28_Witness ==
    /\ IsCall("update_user")
    /\ last.out.kind = "return"
    /\ Len(users) >= 2
    /\ Lookup(users, last.arg.user.id).email = last.arg.user.email

(***************************************************************************)
(* C29: update_user neither changes nor removes the stored password hash:  *)
(* after each update of a stored record the record holds the password_hash *)
(* it held before; and no User returned by find_all,                       *)
(* find_users_by_attributes, get_user_by_id, get_users_by_ids,             *)
(* save_new_user or update_user has a password_hash.                       *)
(***************************************************************************)
\* the Users in a returned value: those of a list, the one returned, none
UsersOf(value) ==
    IF "tag" \in DOMAIN value
    THEN IF value.tag = "List"
         THEN {value.items[k] : k \in 1..Len(value.items)}
         ELSE {}
    ELSE {value}

NoHashReturned ==
    (/\ last.op \in {"find_all", "find_users_by_attributes", "get_user_by_id",
                     "get_users_by_ids", "save_new_user", "update_user"}
     /\ last.out.kind = "return") =>
        \A user \in UsersOf(last.out.value) : DOMAIN user = UserFields

C29_HashKept ==
    [][/\ (Step("update_user") /\ last'.arg.user.id \in Keys(users)) =>
            /\ last'.out.kind = "return"
            /\ "password_hash" \in DOMAIN Lookup(users', last'.arg.user.id)
            /\ Lookup(users', last'.arg.user.id).password_hash
                  = Lookup(users, last'.arg.user.id).password_hash
       /\ NoHashReturned']_vars

\* a stored record was given another email by an update
C29_Witness ==
    /\ IsCall("update_user")
    /\ last.out.kind = "return"
    /\ last.arg.user.id \in Keys(users)
    /\ Lookup(users, last.arg.user.id).password_hash = HashOf("password")
    /\ \A i \in 1..Len(Fixture) :
          Fixture[i].key = last.arg.user.id =>
              Fixture[i].val.email # Lookup(users, last.arg.user.id).email

Answer(call, data, cfg, t) ==
    CASE call.op = "find_all" -> find_all(data)
      [] call.op = "find_users_by_attributes" ->
            find_users_by_attributes(data, call.arg.attributes)
      [] call.op = "get_user_by_id" -> Returned(get_user_by_id(data, call.arg.id))
      [] call.op = "get_users_by_ids" -> get_users_by_ids(data, call.arg.ids)
      [] call.op = "getProfile" -> GetUserProfileUseCase(call.arg.current_user)
      [] call.op = "getUserDetails" ->
            GetUserDetailsUseCase(data, call.arg.user_id, call.arg.current_user)
      [] call.op = "listUsers" -> ListUsersUseCase(data, call.arg.current_user)
      [] call.op = "get_token" -> get_token(call.arg.user, cfg, t)
      [] call.op = "get_session_user" -> get_session_user(call.arg.token, cfg, t)
      [] call.op = "authenticate_user" ->
            authenticate_user(data, call.arg.input, cfg, t)
      [] OTHER -> call.out

====
